---- MODULE Spec2Model ----
(***************************************************************************)
(* A model of src/public/js/reading-plans.js: the ReadingPlans object, its *)
(* three plan tables, the ambient currentPlanType, the asynchronous plan   *)
(* loads started by init, and the external StorageManager it reads and     *)
(* writes (start dates, current plan, completed readings).                 *)
(*                                                                         *)
(* Conventions.  A JavaScript Date is its getTime() value counted in whole *)
(* hours instead of milliseconds (the dates of the model are whole hours,  *)
(* for which the arithmetic of the code is exact), so that the divisor     *)
(* 1000 * 60 * 60 * 24 ms of calculateDayNumber is HoursPerDay.            *)
(* null / undefined is Null (the empty tuple) for                          *)
(* an optional value v stored as <<v>>, and the string Undefined for an    *)
(* absent string property.  A property `chapters` that is absent or 0 is   *)
(* the number 0 (both are falsy in `x || 3`).  A template string is the    *)
(* tuple of its parts.                                                     *)
(***************************************************************************)
EXTENDS Integers, Sequences, FiniteSets, TLC

VARIABLES
    plans,            \* this.nt90Plan, this.ot365Plan, this.ethiopianPlan
    currentPlanType,  \* this.currentPlanType
    startDates,       \* StorageManager: plan type -> start date or Null
    storedPlan,       \* StorageManager.getCurrentPlan()
    completed,        \* StorageManager.getCompletedReadings().length
    pc,               \* per plan type: where its loadPlanFromFile call stands
    loadRet,          \* per plan type: how its last loadPlanFromFile settled
    lastDoc,          \* per plan type: the document its last load parsed
    before,           \* the plan tables when init was last called
    initPc,           \* where init stands
    initRet,          \* what init returned
    call,             \* the call on the object that returned last
    ret               \* what it returned

vars == <<plans, currentPlanType, startDates, storedPlan, completed, pc,
          loadRet, lastDoc, before, initPc, initRet, call, ret>>

----------------------------------------------------------------------------
(* Bounds of the model *)

MaxDay == 2
MaxCycle == 3
MaxReadDay == 1
MaxLookupDay == 5
MaxReadings == 2
MaxCompleted == 1

----------------------------------------------------------------------------
(* Values *)

Null == <<>>
Some(v) == <<v>>
Undefined == "undefined"
Nil == ""

KnownTypes == {"nt90", "ot365", "ethiopian"}
UnknownType == "psalms30"
AllTypes == KnownTypes \cup {UnknownType}

MsPerHour == 1000 * 60 * 60
\* 1000 * 60 * 60 * 24 milliseconds, in hours.
HoursPerDay == (1000 * 60 * 60 * 24) \div MsPerHour

\* JavaScript's % : the remainder has the sign of the dividend.
JsRem(a, b) == IF a >= 0 THEN a % b ELSE -((-a) % b)

\* Math.floor(a / b) for b > 0.
JsFloorDiv(a, b) == a \div b

\* Math.round(100 * a / b) for a >= 0, b > 0: floor(x + 1/2).
JsRoundPercent(a, b) == (200 * a + b) \div (2 * b)

\* Math.ceil(a / b) for a >= 0, b > 0.
JsCeilDiv(a, b) == (a + b - 1) \div b

\* x || d on numbers.
OrDefault(x, d) == IF x = 0 THEN d ELSE x

\* x || y on strings (undefined and "" are falsy).
OrString(x, y) == IF x = Undefined \/ x = "" THEN y ELSE x

Truthy(s) == s # Undefined /\ s # ""

----------------------------------------------------------------------------
(* StorageManager: the external key-value store *)

getStartDate(store, planType) == store[planType]

setStartDate(store, planType, date) == [store EXCEPT ![planType] = Some(date)]

----------------------------------------------------------------------------
(* calculateDayNumber(date, totalDays), reading this.currentPlanType:      *)
(* the day number and the store after the call.                            *)

calculateDayNumberNoWrapFix(store, cpt, date, totalDays) ==
    LET startDate == getStartDate(store, cpt) IN
    IF startDate = Null
    THEN [day |-> 1, store |-> setStartDate(store, cpt, date)]
    ELSE LET diffTime == date - startDate[1]
             diffDays == JsFloorDiv(diffTime, HoursPerDay)
         IN [day |-> JsRem(diffDays, totalDays) + 1, store |-> store]

calculateDayNumberAlwaysAdopt(store, cpt, date, totalDays) ==
    LET startDate == getStartDate(store, cpt) IN
    IF startDate = Null
    THEN [day |-> 1, store |-> setStartDate(store, cpt, date)]
    ELSE LET diffTime == date - startDate[1]
             diffDays == JsFloorDiv(diffTime, HoursPerDay)
         IN [day |-> JsRem(JsRem(diffDays, totalDays) + totalDays, totalDays) + 1,
             store |-> setStartDate(store, cpt, date)]

calculateDayNumberWrongKey(store, cpt, date, totalDays) ==
    LET startDate == getStartDate(store, cpt) IN
    IF startDate = Null
    THEN [day |-> 1, store |-> setStartDate(store, "nt90", date)]
    ELSE LET diffTime == date - startDate[1]
             diffDays == JsFloorDiv(diffTime, HoursPerDay)
         IN [day |-> JsRem(JsRem(diffDays, totalDays) + totalDays, totalDays) + 1,
             store |-> store]

calculateDayNumber(store, cpt, date, totalDays) ==
    LET startDate == getStartDate(store, cpt) IN
    IF startDate = Null
    THEN [day |-> 1, store |-> setStartDate(store, cpt, date)]
    ELSE LET diffTime == date - startDate[1]
             diffDays == JsFloorDiv(diffTime, HoursPerDay)
         IN [day |-> JsRem(JsRem(diffDays, totalDays) + totalDays, totalDays) + 1,
             store |-> store]

----------------------------------------------------------------------------
(* getFallbackReading(date, totalDays, testament) *)

FallbackRecord(testament, dayNumber) ==
    IF testament = "OT"
    THEN [day |-> dayNumber, title |-> <<"OT365 Day", dayNumber>>,
          passages |-> <<"Genesis 1-3">>, theme |-> "Creation & Fall",
          chapters |-> 3]
    ELSE [day |-> dayNumber, title |-> <<"NT90 Day", dayNumber>>,
          passages |-> <<"Matthew 1-4">>, theme |-> "Birth & Early Ministry",
          chapters |-> 4]

getFallbackReadingDayOne(store, cpt, date, totalDays, testament) ==
    [val |-> FallbackRecord(testament, 1), store |-> store]

getFallbackReading(store, cpt, date, totalDays, testament) ==
    LET c == calculateDayNumber(store, cpt, date, totalDays)
    IN [val |-> FallbackRecord(testament, c.day), store |-> c.store]

----------------------------------------------------------------------------
(* Array.prototype.find with the two predicates the code passes, as the    *)
(* index of the first element satisfying it, 0 when there is none.         *)

\* plan.find(r => r.day === dayNumber)
FindDay(plan, dayNumber) ==
    IF \E i \in 1..Len(plan) : plan[i].day = dayNumber
    THEN CHOOSE i \in 1..Len(plan) :
            /\ plan[i].day = dayNumber
            /\ \A j \in 1..(i - 1) : plan[j].day # dayNumber
    ELSE 0

\* readings.find(r => daysSoFar + r.day === dayNumber)
FindReading(readings, daysSoFar, dayNumber) ==
    IF \E i \in 1..Len(readings) : daysSoFar + readings[i].day = dayNumber
    THEN CHOOSE i \in 1..Len(readings) :
            /\ daysSoFar + readings[i].day = dayNumber
            /\ \A j \in 1..(i - 1) : daysSoFar + readings[j].day # dayNumber
    ELSE 0

----------------------------------------------------------------------------
(* getNT90Reading(date) *)

getNT90Reading(tables, store, cpt, date) ==
    LET c == calculateDayNumber(store, cpt, date, 90)
        plan == tables["nt90"]
        i == FindDay(plan, c.day)
    IN IF Len(plan) = 0
       THEN getFallbackReading(c.store, cpt, date, 90, "NT")
       ELSE IF i # 0
       THEN [val |-> [day |-> plan[i].day,
                      title |-> <<"Day", plan[i].day, plan[i].theme>>,
                      passages |-> <<plan[i].reading>>,
                      theme |-> plan[i].theme,
                      chapters |-> OrDefault(plan[i].chapters, 3)],
             store |-> c.store]
       ELSE getFallbackReading(c.store, cpt, date, 90, "NT")

(* getOT365Reading(date) *)

getOT365Reading(tables, store, cpt, date) ==
    LET c == calculateDayNumber(store, cpt, date, 365)
        plan == tables["ot365"]
        i == FindDay(plan, c.day)
    IN IF Len(plan) = 0
       THEN getFallbackReading(c.store, cpt, date, 365, "OT")
       ELSE IF i # 0
       THEN [val |-> [day |-> plan[i].day,
                      title |-> <<"Day", plan[i].day, plan[i].theme>>,
                      passages |-> <<plan[i].reading>>,
                      theme |-> plan[i].theme,
                      month |-> plan[i].month,
                      focus |-> plan[i].focus,
                      chapters |-> OrDefault(plan[i].chapters, 3)],
             store |-> c.store]
       ELSE getFallbackReading(c.store, cpt, date, 365, "OT")

----------------------------------------------------------------------------
(* getEthiopianReading(date) *)

\* month.readings?.length || 0
ReadingsLength(month) == IF month.hasReadings THEN Len(month.readings) ELSE 0

\* this.ethiopianPlan.indexOf(month) for the month the loop is visiting.
\* indexOf compares object identity and the months of a parsed document
\* are distinct objects, so it is the position the loop is at.
IndexOfMonth(plan, m) == m

\* let daysSoFar = 0; for (i = 0; i < monthIndex; i++) daysSoFar += ...
RECURSIVE DaysSoFarInclusive(_, _)
DaysSoFarInclusive(plan, monthIndex) ==
    IF monthIndex = 0 THEN 0
    ELSE DaysSoFarInclusive(plan, monthIndex - 1) + ReadingsLength(plan[monthIndex])

RECURSIVE DaysSoFar(_, _)
DaysSoFar(plan, monthIndex) ==
    IF monthIndex <= 1 THEN 0
    ELSE DaysSoFar(plan, monthIndex - 1) + ReadingsLength(plan[monthIndex - 1])

\* month.readings.find(r => daysSoFar + r.day === dayNumber), 0 if none or
\* if the month has no readings array.
MonthReadingIndex(plan, m, dayNumber) ==
    IF plan[m].hasReadings
    THEN FindReading(plan[m].readings,
                     DaysSoFar(plan, IndexOfMonth(plan, m)), dayNumber)
    ELSE 0

\* for (const month of this.ethiopianPlan) { ... if (monthReading) break }
\* : the first month holding a matching reading, 0 if none.
MatchingMonth(plan, dayNumber) ==
    IF \E m \in 1..Len(plan) : MonthReadingIndex(plan, m, dayNumber) # 0
    THEN CHOOSE m \in 1..Len(plan) :
            /\ MonthReadingIndex(plan, m, dayNumber) # 0
            /\ \A k \in 1..(m - 1) : MonthReadingIndex(plan, k, dayNumber) = 0
    ELSE 0

getEthiopianReading(tables, store, cpt, date) ==
    LET c == calculateDayNumber(store, cpt, date, 365)
        plan == tables["ethiopian"]
        m == MatchingMonth(plan, c.day)
    IN IF Len(plan) = 0
       THEN getFallbackReading(c.store, cpt, date, 365, "OT")
       ELSE IF m # 0
       THEN LET monthReading == plan[m].readings[MonthReadingIndex(plan, m, c.day)]
                feast == OrString(monthReading.feast, plan[m].feast)
            IN [val |-> [day |-> c.day,
                         title |-> IF Truthy(feast)
                                   THEN <<plan[m].name, "Day", monthReading.day, "-", feast>>
                                   ELSE <<plan[m].name, "Day", monthReading.day>>,
                         passages |-> <<monthReading.reading>>,
                         theme |-> monthReading.theme,
                         month |-> plan[m].name,
                         feast |-> feast,
                         chapters |-> OrDefault(monthReading.chapters, 3)],
                store |-> c.store]
       ELSE getFallbackReading(c.store, cpt, date, 365, "OT")

----------------------------------------------------------------------------
(* getReadingForDate(date, planType = null): the reading, the store and    *)
(* this.currentPlanType after the call.                                    *)

getCurrentPlan(stored) == stored

getReadingForDate(tables, store, stored, date, planType) ==
    LET cpt == IF planType # Nil THEN planType ELSE getCurrentPlan(stored)
        r == CASE cpt = "nt90" -> getNT90Reading(tables, store, cpt, date)
               [] cpt = "ot365" -> getOT365Reading(tables, store, cpt, date)
               [] cpt = "ethiopian" -> getEthiopianReading(tables, store, cpt, date)
               [] OTHER -> getNT90Reading(tables, store, cpt, date)
    IN [val |-> r.val, store |-> r.store, cpt |-> cpt]

----------------------------------------------------------------------------
(* getPlanInfo, getReadingStats, getSuggestedTime.  avgChaptersPerDay is   *)
(* kept in hundredths (2.89 is 289).                                       *)

PlanInfoTable ==
    [nt90 |-> [name |-> "90-Day New Testament", days |-> 90,
               totalChapters |-> 260, avgChaptersPerDay |-> 289],
     ot365 |-> [name |-> "OT365 Challenge", days |-> 365,
                totalChapters |-> 929, avgChaptersPerDay |-> 254],
     ethiopian |-> [name |-> "Ethiopian Calendar Plan", days |-> 365,
                    totalChapters |-> 929, avgChaptersPerDay |-> 254]]

getPlanInfo(planType) ==
    IF planType \in DOMAIN PlanInfoTable
    THEN PlanInfoTable[planType]
    ELSE PlanInfoTable["nt90"]

getReadingStats(planType, nCompleted) ==
    LET info == getPlanInfo(planType)
    IN [totalDays |-> info.days,
        completed |-> nCompleted,
        percent |-> JsRoundPercent(nCompleted, info.days),
        remaining |-> info.days - nCompleted,
        avgChaptersPerDay |-> info.avgChaptersPerDay]

getSuggestedTime(planType) ==
    LET info == getPlanInfo(planType)
        minutes == JsCeilDiv(info.avgChaptersPerDay * 5, 100)
    IN <<minutes, "-", minutes + 10, "min">>

----------------------------------------------------------------------------
(* flattenOT365Plan(data).  Array.prototype.sort is stable: records with   *)
(* the same day keep the order in which they were pushed.                  *)

\* monthPlan.days.forEach(day => flatPlan.push({...}))
FlattenMonth(monthPlan) ==
    IF monthPlan.hasDays
    THEN [k \in 1..Len(monthPlan.days) |->
            [day |-> monthPlan.days[k].day,
             reading |-> monthPlan.days[k].reading,
             theme |-> monthPlan.days[k].theme,
             month |-> monthPlan.month,
             focus |-> monthPlan.focus,
             chapters |-> OrDefault(monthPlan.days[k].chapters, 3)]]
    ELSE <<>>

RECURSIVE FlattenMonths(_, _)
FlattenMonths(monthlyPlans, n) ==
    IF n = 0 THEN <<>>
    ELSE FlattenMonths(monthlyPlans, n - 1) \o FlattenMonth(monthlyPlans[n])

\* Insert r after every record whose day is not greater (stable).
RECURSIVE InsertByDay(_, _)
InsertByDay(sorted, r) ==
    IF sorted = <<>> THEN <<r>>
    ELSE IF sorted[Len(sorted)].day <= r.day THEN Append(sorted, r)
    ELSE Append(InsertByDay(SubSeq(sorted, 1, Len(sorted) - 1), r),
                sorted[Len(sorted)])

\* flatPlan.sort((a, b) => a.day - b.day)
RECURSIVE SortByDay(_, _)
SortByDay(flatPlan, n) ==
    IF n = 0 THEN <<>>
    ELSE InsertByDay(SortByDay(flatPlan, n - 1), flatPlan[n])

flattenOT365PlanUnsorted(data) ==
    IF data.hasMonthlyPlans
    THEN FlattenMonths(data.monthlyPlans, Len(data.monthlyPlans))
    ELSE <<>>

flattenOT365Plan(data) ==
    LET flatPlan == IF data.hasMonthlyPlans
                    THEN FlattenMonths(data.monthlyPlans, Len(data.monthlyPlans))
                    ELSE <<>>
    IN SortByDay(flatPlan, Len(flatPlan))

----------------------------------------------------------------------------
(* loadPlanFromFile(planType): the switch that stores the parsed document. *)

loadPlanFromFileWrongTable(tables, planType, data) ==
    CASE planType = "nt90" ->
            [tables EXCEPT !["nt90"] =
                IF data.hasSchedule THEN data.schedule ELSE <<>>]
      [] planType = "ot365" ->
            [tables EXCEPT !["ot365"] = flattenOT365Plan(data)]
      [] planType = "ethiopian" ->
            [tables EXCEPT !["ot365"] =
                IF data.hasMonths THEN data.months ELSE <<>>]

loadPlanFromFile(tables, planType, data) ==
    CASE planType = "nt90" ->
            [tables EXCEPT !["nt90"] =
                IF data.hasSchedule THEN data.schedule ELSE <<>>]
      [] planType = "ot365" ->
            [tables EXCEPT !["ot365"] = flattenOT365Plan(data)]
      [] planType = "ethiopian" ->
            [tables EXCEPT !["ethiopian"] =
                IF data.hasMonths THEN data.months ELSE <<>>]

\* fileMap[planType] is undefined: throw new Error(`Unknown plan type: ...`)
HasFile(planType) == planType \in {"nt90", "ot365", "ethiopian"}

\* What a settled load is: the promise's status, its value, and what the
\* catch block warned about.
Fulfilled(value, warned) == [status |-> "fulfilled", value |-> value, warned |-> warned]

\* init: results.forEach(...) over the settled promises, then return true.
InitLog(results) ==
    [p \in KnownTypes |->
        IF results[p][1].status = "fulfilled" /\ results[p][1].value
        THEN "plan loaded" ELSE "plan failed to load"]

----------------------------------------------------------------------------
(* The documents the plan files may hold (what response.json() yields).    *)

NTReadings == <<"Matthew 1-3", "Matthew 4-6", "Matthew 7-9">>

NTEntry(d) ==
    [day |-> d, reading |-> NTReadings[d], theme |-> "Gospel",
     chapters |-> IF d = 1 THEN 0 ELSE 4]

NTMalformed == [hasSchedule |-> FALSE, schedule |-> <<>>]
\* A schedule with no entry for day 2.
NTGood == [hasSchedule |-> TRUE, schedule |-> <<NTEntry(1), NTEntry(3)>>]

OTMonthNames == <<"Month 1", "Month 2">>
OTFocus == <<"Torah", "History">>

\* The sequences of at most MaxReadings distinct day numbers.
DaySeqs ==
    UNION {{s \in [1..n -> 1..(MaxReadings + 2)] :
                \A i, j \in 1..n : i # j => s[i] # s[j]} : n \in 0..MaxReadings}

OTReadings == <<<<"Genesis 1", "Genesis 2", "Genesis 3", "Genesis 4">>,
                <<"Joshua 1", "Joshua 2", "Joshua 3", "Joshua 4">>>>

OTDays(m, seq) ==
    [k \in 1..Len(seq) |->
        [day |-> seq[k], reading |-> OTReadings[m][k],
         theme |-> OTFocus[m], chapters |-> IF k = 1 THEN 0 ELSE 2]]

OTMonth(m, hasDays, seq) ==
    [month |-> OTMonthNames[m], focus |-> OTFocus[m],
     hasDays |-> hasDays, days |-> OTDays(m, seq)]

OTMonthChoices(m) ==
    {OTMonth(m, FALSE, <<>>)} \cup {OTMonth(m, TRUE, s) : s \in DaySeqs}

OTMalformed == [hasMonthlyPlans |-> FALSE, monthlyPlans |-> <<>>]

OT365Docs ==
    {OTMalformed} \cup
    {[hasMonthlyPlans |-> TRUE, monthlyPlans |-> ms] :
        ms \in {<<>>} \cup {<<a>> : a \in OTMonthChoices(1)}
               \cup {<<a, b>> : a \in OTMonthChoices(1), b \in OTMonthChoices(2)}}

OTGood ==
    [hasMonthlyPlans |-> TRUE,
     monthlyPlans |-> <<OTMonth(1, TRUE, <<1>>), OTMonth(2, TRUE, <<3>>)>>]

EthMonthNames == <<"Meskerem", "Tikimt", "Hidar">>
EthMonthFeasts == <<"Enkutatash", "Meskel", "Hidar Zion">>

EthReadings == <<<<"Psalm 1", "Psalm 2", "Psalm 3", "Psalm 4">>,
                 <<"Isaiah 1", "Isaiah 2", "Isaiah 3", "Isaiah 4">>,
                 <<"Ezekiel 1", "Ezekiel 2", "Ezekiel 3", "Ezekiel 4">>>>

\* The k-th reading of month m, on intra-month day d.
EthReading(m, k, d, feastDay) ==
    [day |-> d, reading |-> EthReadings[m][k],
     theme |-> "Ethiopian", chapters |-> IF k = 1 THEN 0 ELSE 2,
     feast |-> IF d = feastDay THEN "Reading feast" ELSE Undefined]

EthMonth(m, monthFeast, hasReadings, readings) ==
    [name |-> EthMonthNames[m], feast |-> monthFeast,
     hasReadings |-> hasReadings, readings |-> readings]

\* A month's readings: c readings on days 1..c of which the last may carry
\* its own feast, or c >= 2 readings on days 1, 3, 5, ...
EthReadingChoices(m) ==
    {[k \in 1..c |-> EthReading(m, k, k, f)] : <<c, f>> \in
        {cf \in (0..MaxReadings) \X (0..MaxReadings) : cf[2] \in {0, cf[1]}}}
    \cup {[k \in 1..c |-> EthReading(m, k, 2 * k - 1, 0)] : c \in 2..MaxReadings}

EthMonthChoices(m) ==
    UNION {{EthMonth(m, mf, FALSE, <<>>)} \cup
           {EthMonth(m, mf, TRUE, rs) : rs \in EthReadingChoices(m)} :
           mf \in {Undefined, EthMonthFeasts[m]}}

EthMalformed == [hasMonths |-> FALSE, months |-> <<>>]

EthiopianDocs ==
    {EthMalformed} \cup
    {[hasMonths |-> TRUE, months |-> ms] :
        ms \in {<<>>} \cup {<<a>> : a \in EthMonthChoices(1)}
               \cup {<<a, b>> : a \in EthMonthChoices(1), b \in EthMonthChoices(2)}
               \cup {<<a, b, c>> : a \in EthMonthChoices(1), b \in EthMonthChoices(2),
                                  c \in EthMonthChoices(3)}}

EthGood ==
    [hasMonths |-> TRUE,
     months |-> <<EthMonth(1, Undefined, TRUE, <<EthReading(1, 1, 1, 0)>>)>>]

\* A document without its required array.
Malformed(planType, data) ==
    CASE planType = "nt90" -> ~data.hasSchedule
      [] planType = "ot365" -> ~data.hasMonthlyPlans
      [] planType = "ethiopian" -> ~data.hasMonths

\* The documents of the parallel loads: one malformed, one well-formed each.
SmallDocs(planType) ==
    CASE planType = "nt90" -> {NTMalformed, NTGood}
      [] planType = "ot365" -> {OTMalformed, OTGood}
      [] planType = "ethiopian" -> {EthMalformed, EthGood}

----------------------------------------------------------------------------
(* The dates of the calls *)

Offsets == {0, HoursPerDay \div 2, HoursPerDay - 1}

DayPool ==
    (-MaxDay..MaxDay) \cup {-365, -91, -90, 89, 90, 91, 365}

DayDates == {d * HoursPerDay + o : d \in DayPool, o \in Offsets}

StartPool == {o : o \in Offsets}

CycleLengths == (1..MaxCycle) \cup {90, 365}

ReadDates == {d * HoursPerDay + (d % 2) * (HoursPerDay \div 2) : d \in 0..MaxReadDay}

LookupDates == {d * HoursPerDay : d \in 0..MaxLookupDay}

----------------------------------------------------------------------------
(* Calls and returns *)

Call(op, date, planType, totalDays, eff, startBefore) ==
    [op |-> op, date |-> date, planType |-> planType, totalDays |-> totalDays,
     eff |-> eff, startBefore |-> startBefore]

NoCall == Call("none", 0, Nil, 0, Nil, Null)

Returned(v) == [threw |-> FALSE, val |-> v]
Threw(e) == [threw |-> TRUE, val |-> e]

EmptyTables == [p \in KnownTypes |-> <<>>]

LoadedTables ==
    loadPlanFromFile(loadPlanFromFile(loadPlanFromFile(EmptyTables,
        "nt90", NTGood), "ot365", OTGood), "ethiopian", EthGood)

----------------------------------------------------------------------------
(* Actions: the calls on ReadingPlans *)

\* ReadingPlans.getReadingForDate(date, planType)
GetReadingForDate(date, planType) ==
    LET r == getReadingForDate(plans, startDates, storedPlan, date, planType)
    IN /\ currentPlanType' = r.cpt
       /\ startDates' = r.store
       /\ call' = Call("getReadingForDate", date, planType,
                       IF r.cpt = "nt90" \/ r.cpt \notin KnownTypes THEN 90 ELSE 365,
                       r.cpt, startDates[r.cpt])
       /\ ret' = Returned(r.val)
       /\ UNCHANGED <<plans, storedPlan, completed, pc, loadRet, lastDoc,
                      before, initPc, initRet>>

\* ReadingPlans.calculateDayNumber(date, totalDays)
CalculateDayNumber(date, totalDays) ==
    LET c == calculateDayNumber(startDates, currentPlanType, date, totalDays)
    IN /\ startDates' = c.store
       /\ call' = Call("calculateDayNumber", date, Nil, totalDays,
                       currentPlanType, startDates[currentPlanType])
       /\ ret' = Returned(c.day)
       /\ UNCHANGED <<plans, currentPlanType, storedPlan, completed, pc, loadRet,
                      lastDoc, before, initPc, initRet>>

\* ReadingPlans.getPlanInfo(planType)
GetPlanInfo(planType) ==
    /\ call' = Call("getPlanInfo", 0, planType, 0, Nil, Null)
    /\ ret' = Returned(getPlanInfo(planType))
    /\ UNCHANGED <<plans, currentPlanType, startDates, storedPlan, completed, pc,
                   loadRet, lastDoc, before, initPc, initRet>>

\* ReadingPlans.getReadingStats(planType)
GetReadingStats(planType) ==
    /\ call' = Call("getReadingStats", 0, planType, 0, Nil, Null)
    /\ ret' = Returned(getReadingStats(planType, completed))
    /\ UNCHANGED <<plans, currentPlanType, startDates, storedPlan, completed, pc,
                   loadRet, lastDoc, before, initPc, initRet>>

\* ReadingPlans.getSuggestedTime(planType)
GetSuggestedTime(planType) ==
    /\ call' = Call("getSuggestedTime", 0, planType, 0, Nil, Null)
    /\ ret' = Returned(getSuggestedTime(planType))
    /\ UNCHANGED <<plans, currentPlanType, startDates, storedPlan, completed, pc,
                   loadRet, lastDoc, before, initPc, initRet>>

\* ReadingPlans.loadPlanFromFile(planType) with no file for planType: the
\* async function throws before its first await, the promise is rejected.
LoadUnknown(planType) ==
    /\ ~HasFile(planType)
    /\ call' = Call("loadPlanFromFile", 0, planType, 0, Nil, Null)
    /\ ret' = Threw("Unknown plan type")
    /\ UNCHANGED <<plans, currentPlanType, startDates, storedPlan, completed, pc,
                   loadRet, lastDoc, before, initPc, initRet>>

----------------------------------------------------------------------------
(* Actions: one loadPlanFromFile(planType) call, await by await *)

loadVarsUnchanged == UNCHANGED <<currentPlanType, startDates, storedPlan, completed,
                                 before, initPc, initRet>>

\* A direct call: runs to `await fetch(filePath)`.
LoadPlanFromFile(planType) ==
    /\ HasFile(planType)
    /\ initPc # "loading"
    /\ pc[planType] \in {"idle", "settled"}
    /\ pc' = [pc EXCEPT ![planType] = "fetching"]
    /\ loadRet' = [loadRet EXCEPT ![planType] = Null]
    /\ lastDoc' = [lastDoc EXCEPT ![planType] = Null]
    /\ UNCHANGED <<plans, call, ret>>
    /\ loadVarsUnchanged

\* The promise of loadPlanFromFile(planType) is fulfilled with `value`.
Settle(planType, value, warned) ==
    /\ pc' = [pc EXCEPT ![planType] = "settled"]
    /\ loadRet' = [loadRet EXCEPT ![planType] = Some(Fulfilled(value, warned))]
    /\ call' = Call("loadPlanFromFile", 0, planType, 0, Nil, Null)
    /\ ret' = Returned(value)

\* fetch rejects: caught, warned, return false.
FetchRejects(planType) ==
    /\ pc[planType] = "fetching"
    /\ Settle(planType, FALSE, "fetch failed")
    /\ UNCHANGED <<plans, lastDoc>>
    /\ loadVarsUnchanged

\* !response.ok: throw new Error(`HTTP ...`), caught, warned, return false.
FetchNotOk(planType) ==
    /\ pc[planType] = "fetching"
    /\ Settle(planType, FALSE, "HTTP error")
    /\ UNCHANGED <<plans, lastDoc>>
    /\ loadVarsUnchanged

\* response.ok: runs to `await response.json()`.
FetchOk(planType) ==
    /\ pc[planType] = "fetching"
    /\ pc' = [pc EXCEPT ![planType] = "parsing"]
    /\ UNCHANGED <<plans, loadRet, lastDoc, call, ret>>
    /\ loadVarsUnchanged

\* response.json() rejects: caught, warned, return false.
JsonRejects(planType) ==
    /\ pc[planType] = "parsing"
    /\ Settle(planType, FALSE, "invalid JSON")
    /\ UNCHANGED <<plans, lastDoc>>
    /\ loadVarsUnchanged

\* response.json() yields data: the switch stores it, return true.
JsonOk(planType, data) ==
    /\ pc[planType] = "parsing"
    /\ plans' = loadPlanFromFile(plans, planType, data)
    /\ lastDoc' = [lastDoc EXCEPT ![planType] = Some(data)]
    /\ Settle(planType, TRUE, "")
    /\ loadVarsUnchanged

----------------------------------------------------------------------------
(* Actions: init *)

\* init(): the three loadPlanFromFile calls run to their first await, then
\* init awaits Promise.allSettled.
InitCall ==
    /\ initPc \in {"idle", "done"}
    /\ \A p \in KnownTypes : pc[p] \in {"idle", "settled"}
    /\ initPc' = "loading"
    /\ initRet' = Null
    /\ before' = plans
    /\ pc' = [p \in KnownTypes |-> "fetching"]
    /\ loadRet' = [p \in KnownTypes |-> Null]
    /\ lastDoc' = [p \in KnownTypes |-> Null]
    /\ UNCHANGED <<plans, currentPlanType, startDates, storedPlan, completed,
                   call, ret>>

\* All three promises settled: log each, read the current plan, return true.
InitReturn ==
    /\ initPc = "loading"
    /\ \A p \in KnownTypes : pc[p] = "settled"
    /\ initPc' = "done"
    /\ initRet' = Some([threw |-> FALSE, val |-> TRUE, log |-> InitLog(loadRet)])
    /\ currentPlanType' = getCurrentPlan(storedPlan)
    /\ call' = Call("init", 0, Nil, 0, Nil, Null)
    /\ ret' = Returned(TRUE)
    /\ UNCHANGED <<plans, startDates, storedPlan, completed, pc, loadRet, lastDoc,
                   before>>

----------------------------------------------------------------------------
(* Specifications *)

NoLoads ==
    /\ pc = [p \in KnownTypes |-> "idle"]
    /\ loadRet = [p \in KnownTypes |-> Null]
    /\ lastDoc = [p \in KnownTypes |-> Null]
    /\ before = EmptyTables
    /\ initPc = "idle"
    /\ initRet = Null

\* The object as constructed, the store empty.
Fresh ==
    /\ plans = EmptyTables
    /\ currentPlanType = "nt90"
    /\ startDates = [p \in AllTypes |-> Null]
    /\ NoLoads
    /\ call = NoCall
    /\ ret = Returned(0)

\* The object after an init whose three loads succeeded.
GoodDocs == [nt90 |-> NTGood, ot365 |-> OTGood, ethiopian |-> EthGood]

AfterInit ==
    /\ plans = LoadedTables
    /\ currentPlanType = getCurrentPlan(storedPlan)
    /\ startDates = [p \in AllTypes |-> Null]
    /\ pc = [p \in KnownTypes |-> "settled"]
    /\ loadRet = [p \in KnownTypes |-> Some(Fulfilled(TRUE, ""))]
    /\ lastDoc = [p \in KnownTypes |-> Some(GoodDocs[p])]
    /\ before = EmptyTables
    /\ initPc = "done"
    /\ initRet = Some([threw |-> FALSE, val |-> TRUE, log |-> InitLog(loadRet)])
    /\ call = NoCall
    /\ ret = Returned(0)

\* Init is the state after construction; Next is every call and every step.
\* The completion history holds no reading or MaxCompleted readings.
Init ==
    /\ storedPlan \in KnownTypes
    /\ completed \in {0, MaxCompleted}
    /\ Fresh \/ AfterInit

Load(p, docs) ==
    \/ FetchRejects(p)
    \/ FetchNotOk(p)
    \/ FetchOk(p)
    \/ JsonRejects(p)
    \/ pc[p] = "parsing" /\ \E data \in docs : JsonOk(p, data)

Next ==
    \/ \E p \in AllTypes \cup {Nil} : \E date \in ReadDates : GetReadingForDate(date, p)
    \/ \E p \in AllTypes : GetPlanInfo(p)
    \/ \E p \in AllTypes : GetReadingStats(p)
    \/ \E p \in AllTypes : GetSuggestedTime(p)
    \/ LoadUnknown(UnknownType)

Spec == Init /\ [][Next]_vars

\* calculateDayNumber against a stored start date.
InitDay ==
    /\ storedPlan = "nt90"
    /\ completed = 0
    /\ plans = EmptyTables
    /\ currentPlanType = "nt90"
    /\ \E s \in StartPool : startDates = [p \in AllTypes |-> Some(s)]
    /\ NoLoads
    /\ call = NoCall
    /\ ret = Returned(0)

NextDay ==
    \/ \E date \in DayDates : \E L \in CycleLengths : CalculateDayNumber(date, L)
    \/ \E date \in DayDates : \E p \in KnownTypes : GetReadingForDate(date, p)

SpecDay == InitDay /\ [][NextDay]_vars

\* init and its three parallel loads, again and again.
InitLoad ==
    /\ storedPlan = "ot365"
    /\ completed = 0
    /\ Fresh

NextLoad ==
    \/ InitCall
    \/ InitReturn
    \/ \E p \in KnownTypes : Load(p, SmallDocs(p))

SpecLoad == InitLoad /\ [][NextLoad]_vars

\* One load of one plan, then lookups, the start date stored at day 0.
InitLookup(p) ==
    /\ storedPlan = p
    /\ completed = 0
    /\ plans = EmptyTables
    /\ currentPlanType = "nt90"
    /\ startDates = [q \in AllTypes |-> Some(0)]
    /\ NoLoads
    /\ call = NoCall
    /\ ret = Returned(0)

NextLookup(p, docs) ==
    \/ pc[p] = "idle" /\ LoadPlanFromFile(p)
    \/ Load(p, docs)
    \/ \E date \in LookupDates : GetReadingForDate(date, p)

InitOT == InitLookup("ot365")
NextOT == NextLookup("ot365", OT365Docs)
SpecOT == InitOT /\ [][NextOT]_vars

InitEth == InitLookup("ethiopian")
NextEth == NextLookup("ethiopian", EthiopianDocs)
SpecEth == InitEth /\ [][NextEth]_vars

----------------------------------------------------------------------------
(* What the claims speak of *)

\* The calendar date of an instant: its time of day truncated.
CalendarDay(t) == t \div HoursPerDay

\* ((e mod L) + L) mod L + 1 for e whole elapsed days, mod the mathematical
\* modulus; 1 when no start date is stored.
DayNumberOf(date, startDate, L) ==
    IF startDate = Null THEN 1
    ELSE LET e == (date - startDate[1]) \div HoursPerDay
         IN (((e % L) + L) % L) + 1

IsReading == call.op = "getReadingForDate"

----------------------------------------------------------------------------
\* C1: with a stored start date, calculateDayNumber(date, L) returns
\* ((e mod L) + L) mod L + 1 for e the whole days elapsed since the start
\* date, a number in 1..L: 1 on the start date, 1 again L days later, and L
\* one day before the start.
C1_DayNumberWraps ==
    (call.op = "calculateDayNumber" /\ call.startBefore # Null) =>
        LET L == call.totalDays
            start == call.startBefore[1]
        IN /\ ret.val = DayNumberOf(call.date, call.startBefore, L)
           /\ ret.val \in 1..L
           /\ call.date = start => ret.val = 1
           /\ call.date = start + L * HoursPerDay => ret.val = 1
           /\ call.date = start - HoursPerDay => ret.val = L

C1_Witness ==
    /\ call.op = "calculateDayNumber"
    /\ call.startBefore # Null
    /\ call.totalDays = 90
    /\ call.date = call.startBefore[1] - HoursPerDay
    /\ ret.val = 90

\* C9: the day number depends only on the calendar dates of the request and
\* of the stored start date (their times of day truncated before the
\* subtraction).
C9_DateOnlyGranularity ==
    (call.op = "calculateDayNumber" /\ call.startBefore # Null) =>
        LET e == CalendarDay(call.date) - CalendarDay(call.startBefore[1])
        IN ret.val = (e % call.totalDays) + 1

----------------------------------------------------------------------------
\* C2: a call of getReadingForDate for a plan type without a stored start
\* date stores the date of the call as its start date and yields day 1; a
\* stored start date is never written again, whatever is called.
C2_StartDateWrittenOnce ==
    [][/\ \A p \in AllTypes :
            startDates[p] # Null => startDates'[p] = startDates[p]
       /\ (call'.op = "getReadingForDate" /\ startDates[call'.eff] = Null) =>
            /\ startDates'[call'.eff] = Some(call'.date)
            /\ ret'.val.day = 1]_vars

C2_Witness ==
    /\ IsReading
    /\ call.startBefore # Null
    /\ startDates[call.eff] = call.startBefore
    /\ call.startBefore # Some(call.date)
    /\ ret.val.day # 1

----------------------------------------------------------------------------
\* C4: every operation given a plan type outside nt90, ot365, ethiopian
\* throws, and no start date is ever stored for such a type.
C4_UnknownPlanTypeFailsFast ==
    /\ (call.op \in {"getReadingForDate", "getPlanInfo", "getReadingStats",
                     "getSuggestedTime", "loadPlanFromFile"}
        /\ call.planType \notin KnownTypes \cup {Nil}) => ret.threw
    /\ startDates[UnknownType] = Null

----------------------------------------------------------------------------
\* The number of readings in the months before month m.
CountBefore(plan, m) ==
    Cardinality({ik \in (1..(m - 1)) \X (1..(MaxReadings + 2)) :
                    /\ plan[ik[1]].hasReadings
                    /\ ik[2] <= Len(plan[ik[1]].readings)})

\* The readings <<m, k>> of the Ethiopian plan whose global day number is n.
EthMatches(plan, n) ==
    {mk \in (1..Len(plan)) \X (1..(MaxReadings + 2)) :
        /\ plan[mk[1]].hasReadings
        /\ mk[2] <= Len(plan[mk[1]].readings)
        /\ CountBefore(plan, mk[1]) + plan[mk[1]].readings[mk[2]].day = n}

\* The table of plan type p holds no record for day number n.
NoRecord(p, n) ==
    IF p = "ethiopian" THEN EthMatches(plans[p], n) = {}
    ELSE \A i \in 1..Len(plans[p]) : plans[p][i].day # n

\* C5: getReadingForDate for a known plan type whose table is empty or has
\* no record for the day number returns, without throwing, the fixed
\* fallback of the testament with day n the day number of the date, also
\* when the call itself adopts the start date.
C5_FallbackWhenNoData ==
    (IsReading /\ call.eff \in KnownTypes) =>
        LET n == DayNumberOf(call.date, call.startBefore, call.totalDays)
        IN NoRecord(call.eff, n) =>
            /\ ~ret.threw
            /\ ret.val = IF call.eff = "nt90"
                         THEN [day |-> n, title |-> <<"NT90 Day", n>>,
                               passages |-> <<"Matthew 1-4">>,
                               theme |-> "Birth & Early Ministry", chapters |-> 4]
                         ELSE [day |-> n, title |-> <<"OT365 Day", n>>,
                               passages |-> <<"Genesis 1-3">>,
                               theme |-> "Creation & Fall", chapters |-> 3]

C5_Witness ==
    /\ IsReading
    /\ call.eff = "nt90"
    /\ Len(plans["nt90"]) > 0
    /\ call.startBefore # Null
    /\ ret.val.day = 2
    /\ ret.val.passages = <<"Matthew 1-4">>

----------------------------------------------------------------------------
----------------------------------------------------------------------------
\* C3: a load that parsed a document without its required array leaves the
\* plan table as it was when the load began (here: when init was called),
\* so a table loaded before is not replaced by an empty one.  (The claim
\* also says that such a load fails; the code reports success as well.)
C3_MalformedKeepsTable ==
    \A p \in KnownTypes :
        (pc[p] = "settled" /\ lastDoc[p] # Null /\ Malformed(p, lastDoc[p][1])) =>
            plans[p] = before[p]

----------------------------------------------------------------------------
\* The table a load of plan type p sets from the document it parsed.
OwnTable(p, data) ==
    CASE p = "nt90" -> IF data.hasSchedule THEN data.schedule ELSE <<>>
      [] p = "ot365" -> flattenOT365Plan(data)
      [] p = "ethiopian" -> IF data.hasMonths THEN data.months ELSE <<>>

\* C10: under every interleaving and every outcome of the three loads that
\* init starts, each table is written by its own load only: a pending or
\* failed load leaves its table as it was when init was called, a load that
\* succeeded leaves the table it set itself; no load ends in a rejected
\* promise, init can return once the three have settled, and it returns
\* true without throwing, also when all three failed.
C10_ParallelLoadsIndependent ==
    /\ \A p \in KnownTypes :
         /\ pc[p] \in {"fetching", "parsing"} => plans[p] = before[p]
         /\ pc[p] = "settled" =>
              /\ loadRet[p] # Null
              /\ loadRet[p][1].status = "fulfilled"
              /\ plans[p] = IF loadRet[p][1].value
                            THEN OwnTable(p, lastDoc[p][1])
                            ELSE before[p]
    /\ (initPc = "loading" /\ \A p \in KnownTypes : pc[p] = "settled")
         => ENABLED InitReturn
    /\ initPc = "done" =>
         /\ initRet # Null
         /\ ~initRet[1].threw
         /\ initRet[1].val = TRUE

C10_Witness ==
    /\ initPc = "done"
    /\ initRet[1].val = TRUE
    /\ loadRet["nt90"][1].value /\ plans["nt90"] = NTGood.schedule
    /\ ~loadRet["ot365"][1].value /\ plans["ot365"] = <<>>
    /\ loadRet["ethiopian"][1].value /\ plans["ethiopian"] = EthGood.months

----------------------------------------------------------------------------
\* The months of the Ethiopian plan number their readings 1, 2, ..., c.
WellNumbered(plan) ==
    \A m \in 1..Len(plan) :
        plan[m].hasReadings =>
            \A k \in 1..Len(plan[m].readings) : plan[m].readings[k].day = k

\* The reading of getEthiopianReading for reading k of month m, day n.
EthAssignment(plan, m, k, n) ==
    LET r == plan[m].readings[k]
        feast == IF Truthy(r.feast) THEN r.feast ELSE plan[m].feast
    IN [day |-> n,
        title |-> IF Truthy(feast) THEN <<plan[m].name, "Day", r.day, "-", feast>>
                  ELSE <<plan[m].name, "Day", r.day>>,
        passages |-> <<r.reading>>, theme |-> r.theme, month |-> plan[m].name,
        feast |-> feast, chapters |-> IF r.chapters = 0 THEN 3 ELSE r.chapters]

\* C6: the global day number of a reading of the Ethiopian plan is the
\* number of readings of the earlier months (none for a month without
\* readings) plus its intra-month day: a lookup returns a reading with the
\* day number asked for, if there is one, tagged with its month's name and
\* with its own feast or else its month's; and for three months of readings
\* numbered 1..c1, 1..c2, 1..c3, the lookup for day c1 + c2 + 2 returns the
\* third month's reading of day 2.
C6_EthiopianGlobalDay ==
    (IsReading /\ call.eff = "ethiopian" /\ Len(plans["ethiopian"]) > 0) =>
        LET plan == plans["ethiopian"]
            n == DayNumberOf(call.date, call.startBefore, 365)
        IN /\ EthMatches(plan, n) # {} =>
                \E mk \in EthMatches(plan, n) :
                    ret.val = EthAssignment(plan, mk[1], mk[2], n)
           /\ (/\ Len(plan) = 3
               /\ WellNumbered(plan)
               /\ plan[3].hasReadings
               /\ Len(plan[3].readings) >= 2
               /\ n = CountBefore(plan, 3) + 2) =>
                ret.val = EthAssignment(plan, 3, 2, n)

C6_Witness ==
    /\ IsReading
    /\ call.eff = "ethiopian"
    /\ Len(plans["ethiopian"]) = 3
    /\ WellNumbered(plans["ethiopian"])
    /\ plans["ethiopian"][1].hasReadings
    /\ Len(plans["ethiopian"][1].readings) = 2
    /\ ~plans["ethiopian"][2].hasReadings
    /\ plans["ethiopian"][3].hasReadings
    /\ Len(plans["ethiopian"][3].readings) = 2
    /\ ret.val.day = 4
    /\ ret.val.title = <<"Hidar", "Day", 2, "-", "Hidar Zion">>
    /\ ret.val.passages = <<"Ezekiel 2">>

----------------------------------------------------------------------------
\* The day entries <<m, k>> of an OT365 document.
OTEntries(data) ==
    IF data.hasMonthlyPlans
    THEN {mk \in (1..Len(data.monthlyPlans)) \X (1..(MaxReadings + 2)) :
            /\ data.monthlyPlans[mk[1]].hasDays
            /\ mk[2] <= Len(data.monthlyPlans[mk[1]].days)}
    ELSE {}

\* The record of the flattened table for day entry <<m, k>>.
OTRecord(data, mk) ==
    LET month == data.monthlyPlans[mk[1]]
        entry == month.days[mk[2]]
    IN [day |-> entry.day, reading |-> entry.reading, theme |-> entry.theme,
        month |-> month.month, focus |-> month.focus,
        chapters |-> IF entry.chapters = 0 THEN 3 ELSE entry.chapters]

\* Every month of the document numbers its day entries 1, 2, ..., d.
PerMonthNumbered(data) ==
    /\ data.hasMonthlyPlans
    /\ \A m \in 1..Len(data.monthlyPlans) :
        /\ data.monthlyPlans[m].hasDays
        /\ \A k \in 1..Len(data.monthlyPlans[m].days) :
                data.monthlyPlans[m].days[k].day = k

\* What getOT365Reading returns for the day number `day`, the start date
\* being day 0.
OTLookup(day) ==
    getOT365Reading(plans, [q \in AllTypes |-> Some(0)], "ot365",
                    (day - 1) * HoursPerDay).val

OTLoaded ==
    /\ pc["ot365"] = "settled"
    /\ lastDoc["ot365"] # Null

\* The table holds one record for each day entry of the document, with its
\* parent month's month and focus, in the order of the day fields.
OTTableOfDocument(table, data) ==
    /\ Len(table) = Cardinality(OTEntries(data))
    /\ \A i, j \in 1..Len(table) : i < j => table[i].day <= table[j].day
    /\ \A mk \in OTEntries(data) :
            \E i \in 1..Len(table) : table[i] = OTRecord(data, mk)

====
